---- MODULE Spec2Model ----
(***************************************************************************)
(* Model of _tools/types/main.go: the UAST types report generator.         *)
(*                                                                         *)
(* One process invocation is: listDrivers, maybeCloneOrPullAll (MkdirAll,  *)
(* one goroutine per driver gated by a buffered channel of capacity 3 and  *)
(* joined by a WaitGroup), findAllUastTypes, the analyze loop, and         *)
(* formatMarkdownTable.  The local clone root outlives the process, so the *)
(* model lets the program be invoked again on the filesystem it left.      *)
(***************************************************************************)
EXTENDS Naturals, Sequences, FiniteSets

\* ---------------------------------------------------------------- bounds
MaxDrivers == 4      \* the registry lists 0..MaxDrivers drivers
MaxVaried == 2       \* up to this many drivers, the initial clone root and re-runs vary
MaxRuns == 2         \* invocations of the program on the same clone root
MaxCount == 3        \* largest usage count given to the formatter on its own

\* ------------------------------------------------------ program constants
\* make(chan int, 3)
ConcurentCap == 3

\* The languages the registry can list, in registry order.
Langs == <<"go", "python", "java", "ruby", "bash", "cpp", "php">>

NoErr == "nil"
Unset == "unset"

\* A directory of the clone root: <<>> when it does not exist, else <<revision>>.
Absent == <<>>
At(r) == <<r>>

VARIABLES
    registry,    \* what discovery.OfficialDrivers returns: a sequence of languages
    remote,      \* revision of origin/master of each repository
    fs,          \* ./drivers/<name>: Absent, or the revision checked out
    rootExists,  \* whether ./drivers/ exists
    run,         \* number of this invocation of the program
    mainpc,      \* position of main / run
    drivers,     \* []driverStats
    si,          \* loop index i of maybeCloneOrPullAll
    wg,          \* sync.WaitGroup counter
    concurent,   \* number of elements buffered in the channel
    taskpc,      \* position of each goroutine maybeCloneOrPullAsync
    taskErr,     \* value returned by maybeCloneOrPull in each goroutine
    ops,         \* git commands each goroutine has run
    uastTypes,   \* result of findAllUastTypes
    ai,          \* index of the range loop of run
    report,      \* what formatMarkdownTable printed
    err,         \* the variable err of run
    ret,         \* value returned by run
    exitCode,    \* exit status of the process
    fs0,         \* fs when this invocation started
    prevOutcome, \* how each driver's sync ended in the previous invocation
    pushed,      \* repositories whose master moved since the previous invocation
    prevReport   \* what the previous invocation printed

vars == <<registry, remote, fs, rootExists, run, mainpc, drivers, si, wg,
          concurent, taskpc, taskErr, ops, uastTypes, ai, report, err, ret,
          exitCode, fs0, prevOutcome, pushed, prevReport>>

envVars == <<registry, remote, run, prevOutcome, pushed, prevReport, fs0>>
taskVars == <<wg, concurent, taskpc, taskErr, ops>>
outVars == <<uastTypes, ai, report, err, ret, exitCode>>

\* ------------------------------------------------------------ data model
\* Driver.RepositoryURL(): the URL as its path segments.
RepositoryURL(l) == <<"https:", "github.com", "bblfsh", l>>

\* The slice of the URL mutated: it is cut one segment too early.
OrganisationSegment(url) == url[Len(url) - 1]

\* l.RepositoryURL()[strings.LastIndex(l.RepositoryURL(), "/"):]
LastSegment(url) == url[Len(url)]

EmptyMap == [k \in {} |-> 0]

\* m[k] of a Go map[string]int: the zero value when the key is absent.
Get(m, k) == IF k \in DOMAIN m THEN m[k] ELSE 0

\* m[k]++
Incr(m, k) == [x \in (DOMAIN m) \cup {k} |-> IF x = k THEN Get(m, k) + 1 ELSE m[x]]

driverStats(l) ==
    [url |-> RepositoryURL(l),
     language |-> l,
     path |-> LastSegment(RepositoryURL(l)),
     fixturesUast |-> EmptyMap,
     codeUast |-> EmptyMap]

\* path.Join(repoRootPath, d.path): the directory under ./drivers/.
repoPath(d) == d.path

\* The directory "git clone <url>.git" creates in cmd.Dir = ./drivers/.
cloneDir(d) == LastSegment(d.url)

Names == {LastSegment(RepositoryURL(Langs[k])) : k \in 1..Len(Langs)}
Tasks == 1..Len(registry)

\* ---------------------------------------------------------------- Init
Init ==
    /\ \E n \in 0..MaxDrivers : registry = SubSeq(Langs, 1, n)
    /\ remote = [p \in Names |-> 1]
    /\ fs \in [Names -> {Absent, At(1)}]
    /\ \A p \in Names :
          fs[p] # Absent =>
             /\ Len(registry) <= MaxVaried
             /\ \E k \in 1..Len(registry) : LastSegment(RepositoryURL(registry[k])) = p
    /\ rootExists = (\E p \in Names : fs[p] # Absent)
    /\ run = 1
    /\ mainpc = "listDrivers"
    /\ drivers = <<>>
    /\ si = 1
    /\ wg = 0
    /\ concurent = 0
    /\ taskpc = [i \in Tasks |-> "idle"]
    /\ taskErr = [i \in Tasks |-> Unset]
    /\ ops = [i \in Tasks |-> <<>>]
    /\ uastTypes = <<>>
    /\ ai = 1
    /\ report = <<>>
    /\ err = Unset
    /\ ret = Unset
    /\ exitCode = "running"
    /\ fs0 = fs
    /\ prevOutcome = [i \in Tasks |-> Unset]
    /\ pushed = {}
    /\ prevReport = <<>>

\* ------------------------------------------------------------------ run
\* listDrivers, and run's check of its error.
ListDrivers ==
    /\ mainpc = "listDrivers"
    /\ \/ /\ drivers' = [k \in 1..Len(registry) |-> driverStats(registry[k])]
          /\ err' = NoErr
          /\ mainpc' = "mkdirAll"
          /\ ret' = ret
       \/ /\ drivers' = <<>>
          /\ err' = "listDrivers"
          /\ ret' = "failed to list drivers"
          /\ mainpc' = "return"
    /\ UNCHANGED <<envVars, fs, rootExists, si, taskVars, uastTypes, ai, report, exitCode>>

\* os.MkdirAll mutated: its error is not looked at.
MkdirAllUnchecked ==
    /\ mainpc = "mkdirAll"
    /\ \/ /\ rootExists' = TRUE
          /\ err' = err
       \/ /\ rootExists' = rootExists
          /\ err' = "MkdirAll"
    /\ mainpc' = "syncAll"
    /\ UNCHANGED <<envVars, fs, drivers, si, taskVars, uastTypes, ai, report, ret, exitCode>>

\* os.MkdirAll(repoRootPath, os.ModePerm) at the head of maybeCloneOrPullAll,
\* and run's check of the error maybeCloneOrPullAll then returns.
MkdirAll ==
    /\ mainpc = "mkdirAll"
    /\ \/ /\ rootExists' = TRUE
          /\ mainpc' = "syncAll"
          /\ UNCHANGED <<err, ret>>
       \/ /\ rootExists' = rootExists
          /\ err' = "MkdirAll"
          /\ ret' = "failed to pull driver repos"
          /\ mainpc' = "return"
    /\ UNCHANGED <<envVars, fs, drivers, si, taskVars, uastTypes, ai, report, exitCode>>

\* One iteration of the loop of maybeCloneOrPullAll: wg.Add(1); go ...
Spawn ==
    /\ mainpc = "syncAll"
    /\ si <= Len(drivers)
    /\ wg' = wg + 1
    /\ taskpc' = [taskpc EXCEPT ![si] = "acquire"]
    /\ si' = si + 1
    /\ UNCHANGED <<envVars, fs, rootExists, mainpc, drivers, concurent, taskErr, ops, outVars>>

\* wg.Wait() mutated: returns without waiting for the counter.
WgWaitNoBarrier ==
    /\ mainpc = "syncAll"
    /\ si > Len(drivers)
    /\ mainpc' = "findAllUastTypes"
    /\ UNCHANGED <<envVars, fs, rootExists, drivers, si, taskVars, outVars>>

\* wg.Wait() mutated: the batch reports the first failure of a task.
WgWaitFailFast ==
    /\ mainpc = "syncAll"
    /\ si > Len(drivers)
    /\ wg = 0
    /\ IF \E i \in Tasks : taskErr[i] # NoErr
       THEN mainpc' = "return" /\ err' = "task" /\ ret' = "failed to pull driver repos"
       ELSE mainpc' = "findAllUastTypes" /\ UNCHANGED <<err, ret>>
    /\ UNCHANGED <<envVars, fs, rootExists, drivers, si, taskVars, uastTypes, ai, report, exitCode>>

\* wg.Wait(); return nil, and run's check of the (nil) error.
WgWait ==
    /\ mainpc = "syncAll"
    /\ si > Len(drivers)
    /\ wg = 0
    /\ err' = NoErr
    /\ mainpc' = "findAllUastTypes"
    /\ UNCHANGED <<envVars, fs, rootExists, drivers, si, taskVars, uastTypes, ai, report, ret, exitCode>>

\* ------------------------------------------------- maybeCloneOrPullAsync
\* concurent <- 1 mutated: the send never blocks.
AcquireUnbounded(i) ==
    /\ taskpc[i] = "acquire"
    /\ concurent' = concurent + 1
    /\ taskpc' = [taskpc EXCEPT ![i] = "stat"]
    /\ UNCHANGED <<envVars, fs, rootExists, mainpc, drivers, si, wg, taskErr, ops, outVars>>

\* concurent <- 1 mutated: the channel was made with room for one element.
AcquireSerial(i) ==
    /\ taskpc[i] = "acquire"
    /\ concurent < 1
    /\ concurent' = concurent + 1
    /\ taskpc' = [taskpc EXCEPT ![i] = "stat"]
    /\ UNCHANGED <<envVars, fs, rootExists, mainpc, drivers, si, wg, taskErr, ops, outVars>>

\* concurent <- 1: blocks while the buffer is full.
Acquire(i) ==
    /\ taskpc[i] = "acquire"
    /\ concurent < ConcurentCap
    /\ concurent' = concurent + 1
    /\ taskpc' = [taskpc EXCEPT ![i] = "stat"]
    /\ UNCHANGED <<envVars, fs, rootExists, mainpc, drivers, si, wg, taskErr, ops, outVars>>

\* os.Stat(repoPath) mutated: the directory is never looked at, always clone.
StatAlwaysClone(i) ==
    /\ taskpc[i] = "stat"
    /\ taskpc' = [taskpc EXCEPT ![i] = "clone"]
    /\ UNCHANGED <<envVars, fs, rootExists, mainpc, drivers, si, wg, concurent, taskErr, ops, outVars>>

\* os.Stat(repoPath) mutated: the os.IsNotExist test is inverted.
StatInverted(i) ==
    /\ taskpc[i] = "stat"
    /\ \/ /\ taskErr' = [taskErr EXCEPT ![i] = "stat"]
          /\ taskpc' = [taskpc EXCEPT ![i] = "release"]
       \/ /\ fs[repoPath(drivers[i])] # Absent
          /\ taskpc' = [taskpc EXCEPT ![i] = "clone"]
          /\ taskErr' = taskErr
       \/ /\ fs[repoPath(drivers[i])] = Absent
          /\ taskpc' = [taskpc EXCEPT ![i] = "pull"]
          /\ taskErr' = taskErr
    /\ UNCHANGED <<envVars, fs, rootExists, mainpc, drivers, si, wg, concurent, ops, outVars>>

\* os.Stat(repoPath) mutated: the receive is not deferred, and the return on a stat
\* error skips it.
StatErrorSkipsRelease(i) ==
    /\ taskpc[i] = "stat"
    /\ \/ /\ taskErr' = [taskErr EXCEPT ![i] = "stat"]
          /\ taskpc' = [taskpc EXCEPT ![i] = "wgDone"]
       \/ /\ fs[repoPath(drivers[i])] = Absent
          /\ taskpc' = [taskpc EXCEPT ![i] = "clone"]
          /\ taskErr' = taskErr
       \/ /\ fs[repoPath(drivers[i])] # Absent
          /\ taskpc' = [taskpc EXCEPT ![i] = "pull"]
          /\ taskErr' = taskErr
    /\ UNCHANGED <<envVars, fs, rootExists, mainpc, drivers, si, wg, concurent, ops, outVars>>

\* os.Stat(repoPath) and the two tests of its error.
Stat(i) ==
    /\ taskpc[i] = "stat"
    /\ \/ /\ taskErr' = [taskErr EXCEPT ![i] = "stat"]
          /\ taskpc' = [taskpc EXCEPT ![i] = "release"]
       \/ /\ fs[repoPath(drivers[i])] = Absent
          /\ taskpc' = [taskpc EXCEPT ![i] = "clone"]
          /\ taskErr' = taskErr
       \/ /\ fs[repoPath(drivers[i])] # Absent
          /\ taskpc' = [taskpc EXCEPT ![i] = "pull"]
          /\ taskErr' = taskErr
    /\ UNCHANGED <<envVars, fs, rootExists, mainpc, drivers, si, wg, concurent, ops, outVars>>

\* git clone <url>.git in ./drivers/: git refuses an existing directory.
Clone(i) ==
    /\ taskpc[i] = "clone"
    /\ ops' = [ops EXCEPT ![i] = Append(@, "clone")]
    /\ \/ /\ fs[cloneDir(drivers[i])] = Absent
          /\ fs' = [fs EXCEPT ![cloneDir(drivers[i])] = At(remote[cloneDir(drivers[i])])]
          /\ taskErr' = [taskErr EXCEPT ![i] = NoErr]
       \/ /\ fs' = fs
          /\ taskErr' = [taskErr EXCEPT ![i] = "clone"]
    /\ taskpc' = [taskpc EXCEPT ![i] = "release"]
    /\ UNCHANGED <<envVars, rootExists, mainpc, drivers, si, wg, concurent, outVars>>

\* git pull origin master mutated: the working tree is lost.
PullWipes(i) ==
    /\ taskpc[i] = "pull"
    /\ ops' = [ops EXCEPT ![i] = Append(@, "pull")]
    /\ fs' = [fs EXCEPT ![repoPath(drivers[i])] = Absent]
    /\ taskErr' = [taskErr EXCEPT ![i] = NoErr]
    /\ taskpc' = [taskpc EXCEPT ![i] = "release"]
    /\ UNCHANGED <<envVars, rootExists, mainpc, drivers, si, wg, concurent, outVars>>

\* git pull origin master in ./drivers/<name>: cmd.Run fails when the directory is missing.
Pull(i) ==
    /\ taskpc[i] = "pull"
    /\ ops' = [ops EXCEPT ![i] = Append(@, "pull")]
    /\ \/ /\ fs[repoPath(drivers[i])] # Absent
          /\ fs' = [fs EXCEPT ![repoPath(drivers[i])] = At(remote[repoPath(drivers[i])])]
          /\ taskErr' = [taskErr EXCEPT ![i] = NoErr]
       \/ /\ fs' = fs
          /\ taskErr' = [taskErr EXCEPT ![i] = "pull"]
    /\ taskpc' = [taskpc EXCEPT ![i] = "release"]
    /\ UNCHANGED <<envVars, rootExists, mainpc, drivers, si, wg, concurent, outVars>>

\* The deferred func mutated: it does not receive from the channel.
ReleaseLeaks(i) ==
    /\ taskpc[i] = "release"
    /\ taskpc' = [taskpc EXCEPT ![i] = "wgDone"]
    /\ UNCHANGED <<envVars, fs, rootExists, mainpc, drivers, si, wg, concurent, taskErr, ops, outVars>>

\* The deferred func: <-concurent.
Release(i) ==
    /\ taskpc[i] = "release"
    /\ concurent' = concurent - 1
    /\ taskpc' = [taskpc EXCEPT ![i] = "wgDone"]
    /\ UNCHANGED <<envVars, fs, rootExists, mainpc, drivers, si, wg, taskErr, ops, outVars>>

\* wg.Done() mutated: not deferred, so skipped when maybeCloneOrPull fails.
WgDoneOnSuccess(i) ==
    /\ taskpc[i] = "wgDone"
    /\ wg' = IF taskErr[i] = NoErr THEN wg - 1 ELSE wg
    /\ taskpc' = [taskpc EXCEPT ![i] = "done"]
    /\ UNCHANGED <<envVars, fs, rootExists, mainpc, drivers, si, concurent, taskErr, ops, outVars>>

\* The deferred wg.Done(); the goroutine ends and its result is dropped.
WgDone(i) ==
    /\ taskpc[i] = "wgDone"
    /\ wg' = wg - 1
    /\ taskpc' = [taskpc EXCEPT ![i] = "done"]
    /\ UNCHANGED <<envVars, fs, rootExists, mainpc, drivers, si, concurent, taskErr, ops, outVars>>

\* How the sync of driver i ended: the result of maybeCloneOrPull(&drivers[i]).
Outcome(i) ==
    IF taskErr[i] = Unset THEN Unset
    ELSE IF taskErr[i] # NoErr THEN "failed"
    ELSE IF ops[i] = <<"clone">> THEN "cloned" ELSE "updated"

\* ------------------------------------------------- extraction and report
\* findAllUastTypes: reflect.TypeOf(t).String() of each listed type.
findAllUastTypes ==
    <<"uast.Identifier", "uast.String", "uast.Bool", "uast.QualifiedIdentifier",
      "uast.Comment", "uast.Group", "uast.FunctionGroup", "uast.Block",
      "uast.Alias", "uast.Import", "uast.RuntimeImport", "uast.RuntimeReImport",
      "uast.InlineImport", "uast.Argument", "uast.FunctionType", "uast.Function">>

\* analyzeFixtures: its body is a comment.
analyzeFixtures(driver) == driver

\* analyzeCode: driver.codeUast["Identifier"]++; the map is shared with the caller.
analyzeCode(driver, uasts) ==
    [driver EXCEPT !.codeUast = Incr(@, "Identifier")]

\* formatMarkdownTable mutated: a driver whose sync failed gets no column.
formatSkipsFailed(ds, types) ==
    LET synced(k) == taskErr[k] = NoErr
        cols == SelectSeq([k \in 1..Len(ds) |-> k], synced)
    IN  [head |-> [c \in 1..Len(cols) |-> ds[cols[c]].language],
         separator |-> [c \in 1..Len(cols) |-> ":--"],
         rows |-> [t \in 1..Len(types) |->
                     [name |-> types[t],
                      cells |-> [c \in 1..Len(cols) |->
                                   <<Get(ds[cols[c]].fixturesUast, types[t]),
                                     Get(ds[cols[c]].codeUast, types[t])>>]]]]

\* formatMarkdownTable mutated: the two counts of a cell are printed in the other order.
formatSwapsCounts(ds, types) ==
    [head |-> [k \in 1..Len(ds) |-> ds[k].language],
     separator |-> [k \in 1..Len(ds) |-> ":--"],
     rows |-> [t \in 1..Len(types) |->
                 [name |-> types[t],
                  cells |-> [k \in 1..Len(ds) |->
                               <<Get(ds[k].codeUast, types[t]),
                                 Get(ds[k].fixturesUast, types[t])>>]]]]

\* What formatMarkdownTableHeader and formatMarkdownTable print between header and footer.
formatMarkdownTable(ds, types) ==
    [head |-> [k \in 1..Len(ds) |-> ds[k].language],
     separator |-> [k \in 1..Len(ds) |-> ":--"],
     rows |-> [t \in 1..Len(types) |->
                 [name |-> types[t],
                  cells |-> [k \in 1..Len(ds) |->
                               <<Get(ds[k].fixturesUast, types[t]),
                                 Get(ds[k].codeUast, types[t])>>]]]]

FindAllUastTypes ==
    /\ mainpc = "findAllUastTypes"
    /\ uastTypes' = findAllUastTypes
    /\ mainpc' = "analyze"
    /\ UNCHANGED <<envVars, fs, rootExists, drivers, si, taskVars, ai, report, err, ret, exitCode>>

\* One iteration of the range loop of run.
Analyze ==
    /\ mainpc = "analyze"
    /\ ai <= Len(drivers)
    /\ drivers' = [drivers EXCEPT ![ai] = analyzeCode(analyzeFixtures(@), uastTypes)]
    /\ ai' = ai + 1
    /\ UNCHANGED <<envVars, fs, rootExists, mainpc, si, taskVars, uastTypes, report, err, ret, exitCode>>

\* formatMarkdownTable(drivers, uastTypes); return nil.
Format ==
    /\ mainpc = "analyze"
    /\ ai > Len(drivers)
    /\ report' = <<formatMarkdownTable(drivers, uastTypes)>>
    /\ ret' = NoErr
    /\ mainpc' = "return"
    /\ UNCHANGED <<envVars, fs, rootExists, drivers, si, taskVars, uastTypes, ai, err, exitCode>>

\* main: log.Fatal(err) when run failed, else the process ends normally.
Exit ==
    /\ mainpc = "return"
    /\ exitCode' = IF ret = NoErr THEN "0" ELSE "1"
    /\ mainpc' = "exited"
    /\ UNCHANGED <<envVars, fs, rootExists, drivers, si, taskVars, uastTypes, ai, report, err, ret>>

\* The program is invoked again on the clone root it left; the remotes may have moved.
Restart ==
    /\ mainpc = "exited"
    /\ run < MaxRuns
    /\ Len(registry) <= MaxVaried
    /\ run' = run + 1
    /\ \E moved \in {{}} \cup {{repoPath(driverStats(registry[k]))} : k \in Tasks} :
          /\ pushed' = moved
          /\ remote' = [p \in Names |-> IF p \in moved THEN remote[p] + 1 ELSE remote[p]]
    /\ prevOutcome' = [i \in Tasks |-> Outcome(i)]
    /\ prevReport' = report
    /\ fs0' = fs
    /\ mainpc' = "listDrivers"
    /\ drivers' = <<>>
    /\ si' = 1
    /\ wg' = 0
    /\ concurent' = 0
    /\ taskpc' = [i \in Tasks |-> "idle"]
    /\ taskErr' = [i \in Tasks |-> Unset]
    /\ ops' = [i \in Tasks |-> <<>>]
    /\ uastTypes' = <<>>
    /\ ai' = 1
    /\ report' = <<>>
    /\ err' = Unset
    /\ ret' = Unset
    /\ exitCode' = "running"
    /\ UNCHANGED <<registry, fs, rootExists>>

\* The steps of the goroutine of driver i.
TaskStep(i) ==
    \/ Acquire(i)
    \/ Stat(i)
    \/ Clone(i)
    \/ Pull(i)
    \/ Release(i)
    \/ WgDone(i)

\* The steps of one invocation of the program.
Run ==
    \/ ListDrivers
    \/ MkdirAll
    \/ Spawn
    \/ WgWait
    \/ \E i \in Tasks : Acquire(i)
    \/ \E i \in Tasks : Stat(i)
    \/ \E i \in Tasks : Clone(i)
    \/ \E i \in Tasks : Pull(i)
    \/ \E i \in Tasks : Release(i)
    \/ \E i \in Tasks : WgDone(i)
    \/ FindAllUastTypes
    \/ Analyze
    \/ Format
    \/ Exit

Next ==
    \/ Run
    \/ Restart

Spec == Init /\ [][Next]_vars

\* One invocation of the program: the Go scheduler runs every runnable goroutine,
\* and each stat and git command ends.
FairSpec == Init /\ [][Run]_vars /\ WF_vars(Run)

\* ------------------------------------------------ the formatter on its own
\* formatMarkdownTable applied to driver records and catalogs drawn from small sets:
\* the state of run just before line 64, with usage maps as an extraction could
\* have left them.
UsageKeys == {"Identifier", "Comment"}

\* The values a map[string]int over UsageKeys can have.
UsageMaps == UNION {[S -> 0..MaxCount] : S \in SUBSET UsageKeys}

\* A driver record with the given usage maps.
record(l, fx, code) == [driverStats(l) EXCEPT !.fixturesUast = fx, !.codeUast = code]

Catalogs == {<<"Identifier", "Comment">>, <<"Comment", "Identifier">>, findAllUastTypes}

FormatInit ==
    /\ \E fx, code \in UsageMaps :
          LET A == record(Langs[1], fx, code)
              B == record(Langs[2], EmptyMap, EmptyMap)
          IN  drivers \in {<<>>, <<A>>, <<A, B>>, <<B, A>>}
    /\ uastTypes \in Catalogs
    /\ registry = [k \in 1..Len(drivers) |-> drivers[k].language]
    /\ remote = [p \in Names |-> 1]
    /\ fs = [p \in Names |-> Absent]
    /\ fs0 = fs
    /\ rootExists = TRUE
    /\ run = 1
    /\ mainpc = "analyze"
    /\ si = Len(drivers) + 1
    /\ ai = Len(drivers) + 1
    /\ wg = 0
    /\ concurent = 0
    /\ taskpc = [i \in Tasks |-> "done"]
    /\ taskErr = [i \in Tasks |-> "clone"]
    /\ ops = [i \in Tasks |-> <<"clone">>]
    /\ report = <<>>
    /\ err = NoErr
    /\ ret = Unset
    /\ exitCode = "running"
    /\ prevOutcome = [i \in Tasks |-> Unset]
    /\ pushed = {}
    /\ prevReport = <<>>

FormatNext ==
    \/ Format
    \/ Exit

FormatSpec == FormatInit /\ [][FormatNext]_vars

\* ------------------------------------------------------------ properties
\* The directory of driver i under ./drivers/.
Dir(i) == repoPath(driverStats(registry[i]))

\* Task i holds a slot of the channel.
Holding(i) == taskpc[i] \in {"stat", "clone", "pull", "release"}

\* Task i is inside maybeCloneOrPull.
InOperation(i) == taskpc[i] \in {"stat", "clone", "pull"}

\* maybeCloneOrPullAll has returned nil to run.
SyncReturned == mainpc \in {"findAllUastTypes", "analyze"} \/ report # <<>>

\* C1: at no instant do more than 3 sync tasks hold a slot of the limiter, so at
\* most 3 executions of maybeCloneOrPull are in progress, whatever the driver count.
C1_ConcurrencyBound ==
    /\ Cardinality({i \in Tasks : Holding(i)}) <= 3
    /\ Cardinality({i \in Tasks : InOperation(i)}) <= 3
    /\ concurent = Cardinality({i \in Tasks : Holding(i)})

\* C1 witness: more than 3 drivers, 3 tasks in their operation, another blocked on the send.
C1_Witness ==
    /\ Len(drivers) > 3
    /\ Cardinality({i \in Tasks : InOperation(i)}) = 3
    /\ \E i \in Tasks : taskpc[i] = "acquire"

\* C2: once maybeCloneOrPullAll has returned (extraction or formatting has started),
\* every sync task has terminated: none is unstarted, waiting for or holding the limiter.
C2_JoinBarrier ==
    (SyncReturned \/ uastTypes # <<>> \/ ai > 1) =>
        /\ si > Len(drivers)
        /\ \A i \in Tasks : taskpc[i] = "done" /\ taskErr[i] # Unset

\* C2 witness: extraction runs after several tasks ended, one of them with a failure.
C2_Witness ==
    /\ mainpc = "analyze"
    /\ Len(drivers) >= 2
    /\ \E i, j \in Tasks : taskErr[i] # NoErr /\ taskErr[j] = NoErr

\* C3: when the sync of some driver fails, the process still ends with exit code 0
\* and no error from run, every task has run to its end, and every driver whose own
\* operation did not fail has its directory checked out at the remote's revision.
C3_FailureIsolation ==
    (mainpc = "exited" /\ \E i \in Tasks : Outcome(i) = "failed") =>
        /\ ret = NoErr
        /\ exitCode = "0"
        /\ report # <<>>
        /\ \A j \in Tasks :
              /\ taskpc[j] = "done"
              /\ Outcome(j) \in {"cloned", "updated", "failed"}
              /\ taskErr[j] = NoErr => fs[Dir(j)] = At(remote[Dir(j)])

\* C3 witness: a run that ended with one driver failed and another cloned or updated.
C3_Witness ==
    /\ mainpc = "exited"
    /\ exitCode = "0"
    /\ \E i, j \in Tasks :
          /\ Outcome(i) = "failed"
          /\ Outcome(j) \in {"cloned", "updated"}

C5_FatalAbort ==
    (err \in {"listDrivers", "MkdirAll"}) =>
        /\ mainpc \in {"return", "exited"}
        /\ ret \notin {Unset, NoErr}
        /\ mainpc = "exited" => exitCode = "1"
        /\ \A i \in Tasks : taskpc[i] = "idle" /\ ops[i] = <<>>
        /\ wg = 0 /\ concurent = 0
        /\ fs = fs0
        /\ uastTypes = <<>> /\ ai = 1
        /\ \A k \in 1..Len(drivers) :
              drivers[k].fixturesUast = EmptyMap /\ drivers[k].codeUast = EmptyMap
        /\ report = <<>>

\* C5 witness: the clone root could not be created for a registry of several drivers.
C5_Witness ==
    /\ err = "MkdirAll"
    /\ mainpc = "exited"
    /\ Len(drivers) >= 2

\* Task i has left maybeCloneOrPull.
Returned(i) == taskpc[i] \in {"release", "wgDone", "done"}

\* C6 as stated: a finished sync task has performed exactly one repository operation,
\* a clone if its directory did not exist and a pull if it did.
C6_ExactlyOneOperation ==
    \A i \in Tasks :
        taskpc[i] = "done" =>
            /\ Len(ops[i]) = 1
            /\ fs0[Dir(i)] = Absent => ops[i] = <<"clone">>
            /\ fs0[Dir(i)] # Absent => ops[i] = <<"pull">>

\* C6 amended: a sync task performs at most one repository operation per run: none
\* when os.Stat fails with an error other than not-exist, else a clone when the
\* directory does not exist and a pull when it exists; it never performs both and
\* never clones over an existing directory.
C6_CloneOrPull ==
    \A i \in Tasks :
        /\ Len(ops[i]) <= 1
        /\ taskpc[i] = "clone" => fs[Dir(i)] = Absent
        /\ taskpc[i] = "pull" => fs[Dir(i)] # Absent
        /\ ops[i] = <<"clone">> => fs0[Dir(i)] = Absent
        /\ ops[i] = <<"pull">> => fs0[Dir(i)] # Absent
        /\ Returned(i) => (ops[i] = <<>> <=> taskErr[i] = "stat")

\* C6 witness: in one run a task pulled the directory it had cloned in the run
\* before, and another task ended on a stat error without any operation.
C6_Witness ==
    \E i, j \in Tasks :
        /\ prevOutcome[i] = "cloned"
        /\ taskpc[i] = "done" /\ ops[i] = <<"pull">>
        /\ taskpc[j] = "done" /\ ops[j] = <<>> /\ taskErr[j] = "stat"

\* The directory of driver i was, when this invocation started, checked out at the
\* revision the remote still has: an already-cloned, unchanged repository.
UpToDate(i) == fs0[Dir(i)] = At(remote[Dir(i)])

\* C7 as stated: a sync of an already-cloned, unchanged repository leaves the
\* directory in the same state and performs a pull, not a clone.
C7_SecondSyncPulls ==
    \A i \in Tasks :
        (UpToDate(i) /\ taskpc[i] = "done") =>
            /\ fs[Dir(i)] = fs0[Dir(i)]
            /\ ops[i] = <<"pull">>

\* C7 amended: a sync of an already-cloned, unchanged repository leaves the
\* directory in the same state at every instant and never clones; it performs a pull
\* unless os.Stat fails, and then it performs no operation.
C7_IdempotentSync ==
    \A i \in Tasks :
        UpToDate(i) =>
            /\ fs[Dir(i)] = fs0[Dir(i)]
            /\ taskpc[i] # "clone"
            /\ ops[i] \in {<<>>, <<"pull">>}
            /\ Returned(i) => (ops[i] = <<"pull">> \/ taskErr[i] = "stat")

\* C7 witness: two invocations in succession each updated the same unchanged
\* repository, and the directory is as it was.
C7_Witness ==
    \E i \in Tasks :
        /\ run = 2
        /\ prevOutcome[i] = "updated"
        /\ Dir(i) \notin pushed
        /\ UpToDate(i)
        /\ taskpc[i] = "done" /\ Outcome(i) = "updated"
        /\ fs[Dir(i)] = fs0[Dir(i)]

\* This invocation follows one in which some driver failed, and no remote moved.
RerunAfterFailure ==
    /\ run > 1
    /\ pushed = {}
    /\ \E j \in Tasks : prevOutcome[j] = "failed"

\* C8 as stated: the next invocation attempts the clone or pull of every driver that
\* failed, and leaves the directory of every driver that succeeded unchanged.
C8_RetryClonesOrPulls ==
    (RerunAfterFailure /\ SyncReturned) =>
        \A i \in Tasks :
            /\ prevOutcome[i] = "failed" => Len(ops[i]) = 1
            /\ prevOutcome[i] \in {"cloned", "updated"} => fs[Dir(i)] = fs0[Dir(i)]

\* C8 amended: the next invocation runs maybeCloneOrPull again for every driver that
\* failed, attempting its clone or pull unless os.Stat fails, and at no instant
\* changes the directory of a driver that succeeded.
C8_RerunAfterPartialFailure ==
    RerunAfterFailure =>
        \A i \in Tasks :
            /\ (prevOutcome[i] = "failed" /\ SyncReturned) =>
                  /\ taskpc[i] = "done"
                  /\ Len(ops[i]) = 1 \/ (ops[i] = <<>> /\ taskErr[i] = "stat")
                  /\ ops[i] = <<"clone">> <=> (fs0[Dir(i)] = Absent /\ taskErr[i] # "stat")
            /\ prevOutcome[i] \in {"cloned", "updated"} =>
                  /\ fs[Dir(i)] = fs0[Dir(i)]
                  /\ ops[i] \in {<<>>, <<"pull">>}

\* C8 witness: the second invocation cloned the driver that had failed and updated
\* the one that had succeeded, whose directory is as it was.
C8_Witness ==
    /\ RerunAfterFailure
    /\ mainpc = "exited"
    /\ \E i, j \in Tasks :
          /\ prevOutcome[i] = "failed" /\ Outcome(i) = "cloned"
          /\ prevOutcome[j] \in {"cloned", "updated"} /\ Outcome(j) = "updated"
          /\ fs[Dir(j)] = fs0[Dir(j)]

\* C9: a driver whose sync failed is never given to analyzeFixtures / analyzeCode:
\* its usage maps are empty, in particular when the report is formatted.
C9_ExtractionGating ==
    \A i \in 1..Len(drivers) :
        Outcome(i) = "failed" =>
            /\ drivers[i].fixturesUast = EmptyMap
            /\ drivers[i].codeUast = EmptyMap

\* C10: when maybeCloneOrPullAll has returned, the error of every failing
\* maybeCloneOrPull is recorded where its caller can see it: in the error it returns.
C10_OutcomeRecorded ==
    SyncReturned =>
        \A i \in Tasks : Outcome(i) = "failed" => err # NoErr

\* C11: the report has one column per discovered driver, in registry order, and one
\* row per catalog entry, in catalog order, whichever drivers failed to sync and
\* whichever counts are zero.
C11_ReportCompleteOrdered ==
    report # <<>> =>
        LET r == report[1] IN
        /\ Len(r.head) = Len(registry)
        /\ Len(r.separator) = Len(registry)
        /\ \A k \in 1..Len(registry) : r.head[k] = registry[k]
        /\ Len(r.rows) = Len(findAllUastTypes)
        /\ \A t \in 1..Len(findAllUastTypes) :
              /\ r.rows[t].name = findAllUastTypes[t]
              /\ Len(r.rows[t].cells) = Len(registry)

\* C11 witness: a report for several drivers, one failed and one synced.
C11_Witness ==
    /\ report # <<>>
    /\ Len(report[1].head) >= 2
    /\ \E i, j \in Tasks : Outcome(i) = "failed" /\ Outcome(j) \in {"cloned", "updated"}

\* m[k] as the claim reads it: the stored count, and 0 for a key the map lacks.
CountOrZero(m, k) == IF k \in DOMAIN m THEN m[k] ELSE 0

\* The driver records of the scenario: A with counts, B with empty maps.
ScenarioDrivers ==
    <<record(Langs[1], [k \in {"Identifier"} |-> 3],
             [k \in {"Identifier", "Comment"} |-> IF k = "Identifier" THEN 1 ELSE 2]),
      record(Langs[2], EmptyMap, EmptyMap)>>

\* C12: the cell of catalog type t and driver d is fixturesUast[t] / codeUast[t] of d,
\* a key absent from a map reading as 0; a driver with empty maps renders 0/0 in
\* every row; and the scenario (catalog [Identifier, Comment], A, B) renders
\* Identifier | 3/1 | 0/0 and Comment | 0/2 | 0/0.
C12_CellZeroDefault ==
    report # <<>> =>
        LET rows == report[1].rows IN
        /\ \A t \in 1..Len(uastTypes) : \A k \in 1..Len(drivers) :
              /\ rows[t].cells[k] = <<CountOrZero(drivers[k].fixturesUast, uastTypes[t]),
                                      CountOrZero(drivers[k].codeUast, uastTypes[t])>>
              /\ (drivers[k].fixturesUast = EmptyMap /\ drivers[k].codeUast = EmptyMap)
                    => rows[t].cells[k] = <<0, 0>>
        /\ (drivers = ScenarioDrivers /\ uastTypes = <<"Identifier", "Comment">>) =>
              rows = <<[name |-> "Identifier", cells |-> << <<3, 1>>, <<0, 0>> >>],
                       [name |-> "Comment", cells |-> << <<0, 2>>, <<0, 0>> >>]>>

\* C12 witness: the scenario has been formatted.
C12_Witness ==
    /\ report # <<>>
    /\ drivers = ScenarioDrivers
    /\ uastTypes = <<"Identifier", "Comment">>

C14_NeverBlockedByOthers ==
    \A i \in Tasks : taskpc[i] \notin {"idle", "done"} => ENABLED TaskStep(i)

\* C14 amended: a sync task that holds a slot, or has released it, can always take
\* its next step; a task is unable to proceed only at the send on the limiter, and
\* only while 3 other drivers' tasks hold its slots.
C14_BlockedOnlyOnLimiter ==
    \A i \in Tasks :
        /\ taskpc[i] \in {"stat", "clone", "pull", "release", "wgDone"} => ENABLED TaskStep(i)
        /\ (taskpc[i] = "acquire" /\ ~ENABLED TaskStep(i)) =>
              Cardinality({j \in Tasks \ {i} : Holding(j)}) = 3

\* C14 witness: a task cannot send because 3 other tasks hold the slots, one of them
\* in its git command.
C14_Witness ==
    \E i, j \in Tasks :
        /\ taskpc[i] = "acquire" /\ ~ENABLED TaskStep(i)
        /\ taskpc[j] = "clone" /\ ENABLED TaskStep(j)

MapsOf(d) == <<d.fixturesUast, d.codeUast>>

\* C16: a step changes the usage maps of driver k only when it is the iteration of
\* the analyze loop for k: every sync task has ended, formatting has not begun, and
\* no other driver's record changes in that step.
C16_StageOwnership ==
    [][\A k \in 1..Len(drivers) :
          (k <= Len(drivers') /\ MapsOf(drivers'[k]) # MapsOf(drivers[k])) =>
              /\ mainpc = "analyze" /\ mainpc' = "analyze"
              /\ ai = k
              /\ report = <<>> /\ report' = <<>>
              /\ \A i \in Tasks : taskpc[i] = "done"
              /\ \A j \in 1..Len(drivers) : j # k => drivers'[j] = drivers[j]]_vars

\* C16 witness: the first driver's maps have been written, the second's not yet,
\* and all sync tasks have ended.
C16_Witness ==
    /\ mainpc = "analyze"
    /\ Len(drivers) >= 2
    /\ ai = 2
    /\ drivers[1].codeUast # EmptyMap
    /\ drivers[2].codeUast = EmptyMap
    /\ \A i \in Tasks : taskpc[i] = "done"

C18_SyncTerminates ==
    /\ [](mainpc = "syncAll" => ENABLED Run)
    /\ (mainpc = "syncAll") ~>
          /\ mainpc = "findAllUastTypes"
          /\ wg = 0 /\ concurent = 0
          /\ \A i \in Tasks : taskpc[i] = "done" /\ taskErr[i] # Unset

\* C18 witness: maybeCloneOrPullAll has returned for more than 3 drivers, all of
\* whose tasks went through the limiter.
C18_Witness ==
    /\ mainpc = "findAllUastTypes"
    /\ Len(drivers) > 3
    /\ wg = 0 /\ concurent = 0
    /\ \E i \in Tasks : Outcome(i) = "failed"
    /\ \E i \in Tasks : Outcome(i) # "failed"

\* C19: every key of a driver's usage maps is the name of a catalog entry, so every
\* recorded count is printed in some cell of the report.
C19_KeysAreCatalogNames ==
    \A k \in 1..Len(drivers) :
        (DOMAIN drivers[k].fixturesUast) \cup (DOMAIN drivers[k].codeUast)
            \subseteq {findAllUastTypes[t] : t \in 1..Len(findAllUastTypes)}

====
